---- MODULE Spec2Model ----
(***************************************************************************)
(* A model of pattoo_shared/variables.py: the key/value normaliser, the    *)
(* DataPoint constructor and its metadata attach, and the add methods of   *)
(* the DeviceDataPoints and AgentPolledData containers.                    *)
(*                                                                         *)
(* Python strings are sequences of one-character strings.  Python values   *)
(* are records [t, n, d, s]: t is the type name, n the integer payload     *)
(* (int, bool, and the mantissa of a float), d the number of decimal       *)
(* digits of a float (the float is n * 10^-d, with d minimal), s the       *)
(* characters of a str.                                                    *)
(***************************************************************************)
EXTENDS Integers, Sequences, FiniteSets, TLC

VARIABLES dps, args, ddps, apd, call, files, ids, dpt

vars == <<dps, args, ddps, apd, call, files, ids, dpt>>

(***************************************************************************)
(* Bounds of the model.                                                    *)
(***************************************************************************)
MaxItems == 2
MaxClock == 1
MaxData == 2

(***************************************************************************)
(* Python values.                                                          *)
(***************************************************************************)
PyNone == [t |-> "NoneType", n |-> 0, d |-> 0, s |-> <<>>]
PyBool(b) == [t |-> "bool", n |-> IF b THEN 1 ELSE 0, d |-> 0, s |-> <<>>]
PyInt(i) == [t |-> "int", n |-> i, d |-> 0, s |-> <<>>]
PyFloat(m, e) == [t |-> "float", n |-> m, d |-> e, s |-> <<>>]
PyStr(chars) == [t |-> "str", n |-> 0, d |-> 0, s |-> chars]
PyList == [t |-> "list", n |-> 0, d |-> 0, s |-> <<>>]

PyTrue == PyBool(TRUE)
PyFalse == PyBool(FALSE)

\* Python's ==, as `x in [...]` uses it: bool, int and float compare by number.
IsNumber(v) == v.t \in {"bool", "int", "float"}
PyEq(a, b) ==
    IF IsNumber(a) /\ IsNumber(b) THEN a.n = b.n /\ a.d = b.d
    ELSE IF a.t = "list" \/ b.t = "list" THEN FALSE
    ELSE a = b

PyIn(v, list) == \E i \in DOMAIN list : PyEq(v, list[i])

(***************************************************************************)
(* Strings.                                                                *)
(***************************************************************************)
\* The blanks str.strip() takes off, of the characters the inputs are made
\* of.
Whitespace == {" ", "\t", "\n", "\r", "\f"}
Digits == <<"0", "1", "2", "3", "4", "5", "6", "7", "8", "9">>

\* str.lower() of one character
LowerChar(c) ==
    LET upper == <<"A", "B", "C", "D", "E", "F", "G", "H", "I", "J", "K",
                   "L", "M", "N", "O", "P", "Q", "R", "S", "T", "U", "V",
                   "W", "X", "Y", "Z">>
        lower == <<"a", "b", "c", "d", "e", "f", "g", "h", "i", "j", "k",
                   "l", "m", "n", "o", "p", "q", "r", "s", "t", "u", "v",
                   "w", "x", "y", "z">>
    IN  IF \E i \in DOMAIN upper : upper[i] = c
        THEN lower[CHOOSE i \in DOMAIN upper : upper[i] = c]
        ELSE c

Lower(s) == [i \in DOMAIN s |-> LowerChar(s[i])]

RECURSIVE LStrip(_)
LStrip(s) ==
    IF s # <<>> /\ Head(s) \in Whitespace THEN LStrip(Tail(s)) ELSE s

RECURSIVE RStrip(_)
RStrip(s) ==
    IF s # <<>> /\ s[Len(s)] \in Whitespace
    THEN RStrip(SubSeq(s, 1, Len(s) - 1))
    ELSE s

Strip(s) == RStrip(LStrip(s))

Contains(s, sub) ==
    \E i \in 1..(Len(s) - Len(sub) + 1) : SubSeq(s, i, i + Len(sub) - 1) = sub

Pattoo == <<"p", "a", "t", "t", "o", "o">>

RECURSIVE Pow10(_)
Pow10(k) == IF k = 0 THEN 1 ELSE 10 * Pow10(k - 1)

RECURSIVE NatDigits(_)
NatDigits(i) ==
    IF i < 10 THEN <<Digits[i + 1]>>
    ELSE NatDigits(i \div 10) \o <<Digits[(i % 10) + 1]>>

IntDigits(i) == IF i < 0 THEN <<"-">> \o NatDigits(0 - i) ELSE NatDigits(i)

RECURSIVE ZeroPad(_, _)
ZeroPad(s, width) == IF Len(s) >= width THEN s ELSE ZeroPad(<<"0">> \o s, width)

Abs(i) == IF i < 0 THEN 0 - i ELSE i

\* repr of a float n * 10^-d, in the range where Python prints no exponent.
FloatRepr(v) ==
    LET whole == Abs(v.n) \div Pow10(v.d)
        frac == Abs(v.n) % Pow10(v.d)
    IN  (IF v.n < 0 THEN <<"-">> ELSE <<>>)
        \o NatDigits(whole) \o <<".">>
        \o (IF v.d = 0 THEN <<"0">> ELSE ZeroPad(NatDigits(frac), v.d))

\* str(v), which '{}'.format(v) gives as well.
Str(v) ==
    CASE v.t = "str" -> v.s
      [] v.t = "int" -> IntDigits(v.n)
      [] v.t = "float" -> FloatRepr(v)
      [] v.t = "bool" -> IF v.n = 1 THEN <<"T", "r", "u", "e">>
                         ELSE <<"F", "a", "l", "s", "e">>
      [] v.t = "NoneType" -> <<"N", "o", "n", "e">>
      [] OTHER -> <<"[", "]">>

(***************************************************************************)
(* float(str): surrounding whitespace is dropped, then an optional sign,   *)
(* digits and at most one decimal point, with at least one digit.  The     *)
(* exponent, inf/nan and digit-separator forms are outside the alphabet.   *)
(***************************************************************************)
DigitValue(c) == CHOOSE i \in 0..9 : Digits[i + 1] = c
IsDigit(c) == \E i \in 1..10 : Digits[i] = c

Unsigned(s) ==
    IF s # <<>> /\ Head(s) \in {"+", "-"} THEN Tail(s) ELSE s

FloatParses(chars) ==
    LET body == Unsigned(Strip(chars))
        dots == {i \in DOMAIN body : body[i] = "."}
    IN  /\ \A i \in DOMAIN body : IsDigit(body[i]) \/ body[i] = "."
        /\ Cardinality(dots) <= 1
        /\ \E i \in DOMAIN body : IsDigit(body[i])

RECURSIVE DigitsValue(_)
DigitsValue(s) ==
    IF s = <<>> THEN 0
    ELSE 10 * DigitsValue(SubSeq(s, 1, Len(s) - 1)) + DigitValue(s[Len(s)])

RECURSIVE Normalize(_, _)
Normalize(m, e) ==
    IF e > 0 /\ m % 10 = 0 THEN Normalize(m \div 10, e - 1) ELSE PyFloat(m, e)

ParseFloat(chars) ==
    LET stripped == Strip(chars)
        negative == stripped # <<>> /\ Head(stripped) = "-"
        body == Unsigned(stripped)
        dots == {i \in DOMAIN body : body[i] = "."}
        dot == IF dots = {} THEN Len(body) + 1 ELSE CHOOSE i \in dots : TRUE
        whole == SubSeq(body, 1, dot - 1)
        frac == SubSeq(body, dot + 1, Len(body))
        mantissa == DigitsValue(whole \o frac)
    IN  Normalize(IF negative THEN 0 - mantissa ELSE mantissa, Len(frac))

\* int(x) of a float: truncation toward zero.
TruncFloat(v) ==
    IF v.n < 0 THEN 0 - (Abs(v.n) \div Pow10(v.d)) ELSE v.n \div Pow10(v.d)

(***************************************************************************)
(* pattoo_shared.data and pattoo_shared.constants.                         *)
(***************************************************************************)
\* data.is_numeric: True when the value parses as a number.
is_numeric(val) ==
    CASE val.t \in {"int", "float"} -> TRUE
      [] val.t = "str" -> FloatParses(val.s)
      [] OTHER -> FALSE

\* data.hashstring: a collision-free digest of fixed width.  The digest of s
\* is s between two marks that no other string contains, so that distinct
\* strings have distinct digests and a digest followed by more text splits
\* in one way only, as a fixed-width digest does.
hashstring(chars) == <<"<">> \o chars \o <<">">>

DATA_INT == PyInt(99)
DATA_FLOAT == PyInt(101)
DATA_COUNT64 == PyInt(64)
DATA_COUNT == PyInt(32)
DATA_STRING == PyInt(2)
DATA_NONE == PyInt(0)

\* constants.DATAPOINT_KEYS: the reserved top-level attribute names.
DATAPOINT_KEYS ==
    << PyStr(<<"a", "g", "e", "n", "t", "_", "i", "d">>),
       PyStr(<<"a", "g", "e", "n", "t", "_", "p", "r", "o", "g", "r", "a", "m">>) >>

(***************************************************************************)
(* _key_value_valid(key, value, metadata, override)                        *)
(***************************************************************************)
IsStrIntFloat(v) == v.t \in {"str", "int", "float", "bool"}

\* Mutant: 'pattoo' is looked for at the start of the key only.
_key_value_valid_PrefixOnly(key, value, metadata, override) ==
    LET valid0 == /\ IsStrIntFloat(key)
                  /\ key # PyTrue
                  /\ key # PyFalse
                  /\ key # PyNone
                  /\ IsStrIntFloat(value)
                  /\ value # PyTrue
                  /\ value # PyFalse
                  /\ value # PyNone
        key1 == Strip(Lower(Str(key)))
        valid1 == valid0 /\ key1 # <<>>
        valid == IF override = FALSE
                 THEN valid1 /\ ~(/\ Len(key1) >= Len(Pattoo)
                                  /\ SubSeq(key1, 1, Len(Pattoo)) = Pattoo)
                 ELSE valid1
    IN  IF valid
        THEN [key |-> PyStr(key1),
              value |-> IF metadata THEN PyStr(Strip(Str(value))) ELSE value,
              valid |-> TRUE]
        ELSE [key |-> PyNone, value |-> PyNone, valid |-> FALSE]

\* Mutant: a rejected pair is handed back as it came instead of as None.
_key_value_valid_KeepsRejected(key, value, metadata, override) ==
    LET valid0 == /\ IsStrIntFloat(key)
                  /\ key # PyTrue
                  /\ key # PyFalse
                  /\ key # PyNone
                  /\ IsStrIntFloat(value)
                  /\ value # PyTrue
                  /\ value # PyFalse
                  /\ value # PyNone
        key1 == Strip(Lower(Str(key)))
        valid1 == valid0 /\ key1 # <<>>
        valid == IF override = FALSE
                 THEN valid1 /\ ~Contains(Lower(key1), Pattoo)
                 ELSE valid1
    IN  IF valid
        THEN [key |-> PyStr(key1),
              value |-> IF metadata THEN PyStr(Strip(Str(value))) ELSE value,
              valid |-> TRUE]
        ELSE [key |-> IF valid0 THEN PyStr(key1) ELSE key, value |-> value,
              valid |-> FALSE]

\* Mutant: the key is lowercased and not stripped.
_key_value_valid_NoStrip(key, value, metadata, override) ==
    LET valid0 == /\ IsStrIntFloat(key)
                  /\ key # PyTrue
                  /\ key # PyFalse
                  /\ key # PyNone
                  /\ IsStrIntFloat(value)
                  /\ value # PyTrue
                  /\ value # PyFalse
                  /\ value # PyNone
        key1 == Lower(Str(key))
        valid1 == valid0 /\ key1 # <<>>
        valid == IF override = FALSE
                 THEN valid1 /\ ~Contains(Lower(key1), Pattoo)
                 ELSE valid1
    IN  IF valid
        THEN [key |-> PyStr(key1),
              value |-> IF metadata THEN PyStr(Strip(Str(value))) ELSE value,
              valid |-> TRUE]
        ELSE [key |-> PyNone, value |-> PyNone, valid |-> FALSE]

_key_value_valid(key, value, metadata, override) ==
    LET valid0 == /\ IsStrIntFloat(key)
                  /\ key # PyTrue
                  /\ key # PyFalse
                  /\ key # PyNone
                  /\ IsStrIntFloat(value)
                  /\ value # PyTrue
                  /\ value # PyFalse
                  /\ value # PyNone
        key1 == Strip(Lower(Str(key)))
        valid1 == valid0 /\ key1 # <<>>
        valid2 == IF override = FALSE
                  THEN valid1 /\ ~Contains(Lower(key1), Pattoo)
                  ELSE valid1
        valid == valid0 /\ valid2
    IN  IF valid
        THEN [key |-> PyStr(key1),
              value |-> IF metadata THEN PyStr(Strip(Str(value))) ELSE value,
              valid |-> TRUE]
        ELSE [key |-> PyNone, value |-> PyNone, valid |-> FALSE]

(***************************************************************************)
(* DataPoint.__init__(key, value, data_type), at time `now`.               *)
(***************************************************************************)
DataTypes == <<DATA_INT, DATA_FLOAT, DATA_COUNT64, DATA_COUNT, DATA_STRING,
               DATA_NONE>>
NumericTypes == <<DATA_INT, DATA_FLOAT, DATA_COUNT64, DATA_COUNT>>

\* Mutant: the numeric-value check of lines 160-170 is left out.
DataPoint_valid_NoNumericCheck(kv, value, data_type) ==
    /\ PyIn(data_type, DataTypes)
    /\ data_type # PyFalse
    /\ data_type # PyTrue
    /\ data_type # PyNone
    /\ kv.valid = TRUE

DataPoint_valid(kv, value, data_type) ==
    LET valid1 == /\ PyIn(data_type, DataTypes)
                  /\ data_type # PyFalse
                  /\ data_type # PyTrue
                  /\ data_type # PyNone
                  /\ kv.valid = TRUE
    IN  IF /\ PyIn(data_type, NumericTypes)
           /\ valid1 = TRUE
           /\ is_numeric(value) = FALSE
        THEN FALSE
        ELSE valid1

\* Mutant: DATA_INT keeps float(value) instead of int(float(value)).
DataPoint_value_NoTruncation(kv, valid, value, data_type) ==
    LET converted ==
            IF valid = TRUE /\ is_numeric(value) = TRUE /\ value.t = "str"
            THEN IF PyIn(data_type, <<DATA_FLOAT, DATA_COUNT64, DATA_COUNT,
                                      DATA_INT>>)
                 THEN ParseFloat(value.s)
                 ELSE kv.value
            ELSE kv.value
    IN  IF PyIn(data_type, <<DATA_STRING>>) THEN PyStr(Str(value))
        ELSE converted

DataPoint_value(kv, valid, value, data_type) ==
    LET converted ==
            IF valid = TRUE /\ is_numeric(value) = TRUE /\ value.t = "str"
            THEN IF PyIn(data_type, <<DATA_FLOAT, DATA_COUNT64, DATA_COUNT>>)
                 THEN ParseFloat(value.s)
                 ELSE IF PyIn(data_type, <<DATA_INT>>)
                      THEN PyInt(TruncFloat(ParseFloat(value.s)))
                      ELSE kv.value
            ELSE kv.value
    IN  IF PyIn(data_type, <<DATA_STRING>>) THEN PyStr(Str(value))
        ELSE converted

DataPoint_init(key, value, data_type, now) ==
    LET kv == _key_value_valid(key, value, FALSE, FALSE)
        valid == DataPoint_valid(kv, value, data_type)
    IN  [key |-> kv.key,
         value |-> DataPoint_value(kv, valid, value, data_type),
         valid |-> valid,
         data_type |-> data_type,
         timestamp |-> now,
         metadata |-> <<>>,
         metakeys |-> <<>>,
         checksum |-> hashstring(Str(kv.key) \o Str(data_type))]

(***************************************************************************)
(* Objects handed to an add method.  An argument is either one object or  *)
(* a Python list of objects (cls = "list", with its elements in elems).    *)
(* ref is the heap index of a DataPoint or of a DeviceDataPoints.          *)
(***************************************************************************)
Object(cls, ref, key, value, valid) ==
    [cls |-> cls, ref |-> ref, key |-> key, value |-> value, valid |-> valid]

NoneObject == Object("NoneType", 0, PyNone, PyNone, FALSE)
StrObject == Object("str", 0, PyNone, PyNone, FALSE)
DataPointRef(i) == Object("DataPoint", i, PyNone, PyNone, FALSE)
DeviceDataPointsRef(j) == Object("DeviceDataPoints", j, PyNone, PyNone, FALSE)
ListOf(elems) == [cls |-> "list", elems |-> elems]

\* Metadata.__init__: key and value as given, and no attribute `valid`.
Metadata(key, value) == Object("Metadata", 0, key, value, FALSE)

\* DataPointMetadata.__init__
DataPointMetadata(key, value) ==
    LET kv == _key_value_valid(key, value, TRUE, FALSE)
    IN  Object("DataPointMetadata", 0, kv.key, kv.value, kv.valid)

IsInstanceMetadata(item) == item.cls \in {"Metadata", "DataPointMetadata"}
IsInstanceDataPoint(item) == item.cls = "DataPoint"
IsInstanceDeviceDataPoints(item) == item.cls = "DeviceDataPoints"
IsInstanceList(items) == items.cls = "list"
HasAttrValid(item) == item.cls # "Metadata"

\* if isinstance(items, list) is False: items = [items]
AsList(items) == IF IsInstanceList(items) = FALSE THEN <<items>> ELSE items.elems

Range(seq) == {seq[i] : i \in DOMAIN seq}

(***************************************************************************)
(* DataPoint.add(items): the result is the DataPoint after the loop and   *)
(* whether the loop ended in an AttributeError (item.valid of an object    *)
(* that has no such attribute); the items before it have been processed.   *)
(***************************************************************************)
DictSet(dict, key, value) ==
    [k \in DOMAIN dict \cup {key} |-> IF k = key THEN value ELSE dict[k]]

\* Mutant: the checksum is refolded for a key that is attached already.
DataPoint_attach_RefoldsAlways(self, item) ==
    IF item.key \notin Range(self.metakeys)
    THEN [self EXCEPT
            !.metadata = DictSet(self.metadata, item.key, item.value),
            !.metakeys = Append(self.metakeys, item.key),
            !.checksum = hashstring(self.checksum \o Str(item.key)
                                    \o Str(item.value))]
    ELSE [self EXCEPT
            !.checksum = hashstring(self.checksum \o Str(item.key)
                                    \o Str(item.value))]

\* Lines 233-237, for an item the loop processes.
DataPoint_attach(self, item) ==
    IF item.key \notin Range(self.metakeys)
    THEN [self EXCEPT
            !.metadata = DictSet(self.metadata, item.key, item.value),
            !.metakeys = Append(self.metakeys, item.key),
            !.checksum = hashstring(self.checksum \o Str(item.key)
                                    \o Str(item.value))]
    ELSE self

RECURSIVE DataPoint_add_loop(_, _)
DataPoint_add_loop(self, list) ==
    IF list = <<>> THEN [self |-> self, raised |-> FALSE]
    ELSE LET item == Head(list)
         IN  IF IsInstanceMetadata(item) = TRUE
             THEN IF ~HasAttrValid(item)
                  THEN [self |-> self, raised |-> TRUE]
                  ELSE IF item.valid = FALSE \/ PyIn(item.key, DATAPOINT_KEYS)
                       THEN DataPoint_add_loop(self, Tail(list))
                       ELSE DataPoint_add_loop(DataPoint_attach(self, item),
                                               Tail(list))
             ELSE DataPoint_add_loop(self, Tail(list))

DataPoint_add(self, items) == DataPoint_add_loop(self, AsList(items))

(***************************************************************************)
(* The containers.  data holds heap indices: a container stores the        *)
(* objects themselves, not copies of them.                                 *)
(***************************************************************************)
\* bool(v)
Truthy(v) ==
    CASE v.t = "str" -> v.s # <<>>
      [] v.t \in {"int", "float", "bool"} -> v.n # 0
      [] OTHER -> FALSE

\* DeviceDataPoints.__init__(device)
DeviceDataPoints_init(device) ==
    [data |-> <<>>, device |-> device, valid |-> FALSE, checksums |-> <<>>]

\* Mutant: the checksum is not looked up before the DataPoint is appended.
DeviceDataPoints_add_item_NoDedup(self, item, heap) ==
    IF IsInstanceDataPoint(item) = TRUE
    THEN LET stored == [self EXCEPT
                          !.data = Append(self.data, item.ref),
                          !.checksums = Append(self.checksums,
                                               heap[item.ref].checksum)]
         IN  [stored EXCEPT
                !.valid = (stored.data # <<>>) /\ Truthy(stored.device)]
    ELSE self

\* Mutant: valid says whether this item was stored, not whether data holds
\* anything.
DeviceDataPoints_add_item_ValidOfItem(self, item, heap) ==
    IF IsInstanceDataPoint(item) = TRUE
    THEN LET fresh == heap[item.ref].checksum \notin Range(self.checksums)
             stored ==
                IF fresh
                THEN [self EXCEPT
                        !.data = Append(self.data, item.ref),
                        !.checksums = Append(self.checksums,
                                             heap[item.ref].checksum)]
                ELSE self
         IN  [stored EXCEPT !.valid = fresh /\ Truthy(stored.device)]
    ELSE self

\* Mutant: valid is bool(self.data), whatever the device is.
DeviceDataPoints_add_item_IgnoresDevice(self, item, heap) ==
    IF IsInstanceDataPoint(item) = TRUE
    THEN LET stored ==
                IF heap[item.ref].checksum \notin Range(self.checksums)
                THEN [self EXCEPT
                        !.data = Append(self.data, item.ref),
                        !.checksums = Append(self.checksums,
                                             heap[item.ref].checksum)]
                ELSE self
         IN  [stored EXCEPT !.valid = (stored.data # <<>>)]
    ELSE self

\* Mutant: a DataPoint whose checksum is in the index takes the place of
\* the one stored with that checksum.
DeviceDataPoints_add_item_LastWins(self, item, heap) ==
    IF IsInstanceDataPoint(item) = TRUE
    THEN LET stored ==
                IF heap[item.ref].checksum \notin Range(self.checksums)
                THEN [self EXCEPT
                        !.data = Append(self.data, item.ref),
                        !.checksums = Append(self.checksums,
                                             heap[item.ref].checksum)]
                ELSE [self EXCEPT
                        !.data = [k \in DOMAIN self.data |->
                                    IF self.checksums[k] = heap[item.ref].checksum
                                    THEN item.ref ELSE self.data[k]]]
         IN  [stored EXCEPT
                !.valid = (stored.data # <<>>) /\ Truthy(stored.device)]
    ELSE self

\* Lines 337-343, for one item of the loop; heap is the DataPoints.
DeviceDataPoints_add_item(self, item, heap) ==
    IF IsInstanceDataPoint(item) = TRUE
    THEN LET stored ==
                IF heap[item.ref].checksum \notin Range(self.checksums)
                THEN [self EXCEPT
                        !.data = Append(self.data, item.ref),
                        !.checksums = Append(self.checksums,
                                             heap[item.ref].checksum)]
                ELSE self
         IN  [stored EXCEPT
                !.valid = (stored.data # <<>>) /\ Truthy(stored.device)]
    ELSE self

\* Mutant: the loop ends at the first item that is no DataPoint.
RECURSIVE DeviceDataPoints_add_loop_Break(_, _, _)
DeviceDataPoints_add_loop_Break(self, list, heap) ==
    IF list = <<>> \/ ~IsInstanceDataPoint(Head(list)) THEN self
    ELSE DeviceDataPoints_add_loop_Break(
            DeviceDataPoints_add_item(self, Head(list), heap), Tail(list), heap)

RECURSIVE DeviceDataPoints_add_loop(_, _, _)
DeviceDataPoints_add_loop(self, list, heap) ==
    IF list = <<>> THEN self
    ELSE DeviceDataPoints_add_loop(
            DeviceDataPoints_add_item(self, Head(list), heap), Tail(list), heap)

DeviceDataPoints_add(self, items, heap) ==
    DeviceDataPoints_add_loop(self, AsList(items), heap)

\* AgentPolledData.__init__: the fields come from the caller, the host name,
\* the agent-id file and the configuration.
NewAgentPolledData(agent_id, agent_program, agent_hostname, interval) ==
    [agent_id |-> agent_id, agent_program |-> agent_program,
     agent_hostname |-> agent_hostname, polling_interval |-> interval,
     data |-> <<>>, valid |-> FALSE]

\* Mutant: the child's valid flag is not looked at.
AgentPolledData_add_item_NoValidCheck(self, item, sets) ==
    IF IsInstanceDeviceDataPoints(item) = TRUE
    THEN LET stored == [self EXCEPT !.data = Append(self.data, item.ref)]
         IN  [stored EXCEPT
                !.valid = /\ Truthy(stored.agent_id)
                          /\ Truthy(stored.agent_program)
                          /\ Truthy(stored.agent_hostname)
                          /\ Truthy(stored.polling_interval)
                          /\ stored.data # <<>>]
    ELSE self

\* Mutant: the child is put in front of the data.
AgentPolledData_add_item_Prepend(self, item, sets) ==
    IF IsInstanceDeviceDataPoints(item) = TRUE
    THEN IF sets[item.ref].valid = FALSE
         THEN self
         ELSE LET stored == [self EXCEPT !.data = <<item.ref>> \o self.data]
              IN  [stored EXCEPT
                     !.valid = /\ Truthy(stored.agent_id)
                               /\ Truthy(stored.agent_program)
                               /\ Truthy(stored.agent_hostname)
                               /\ Truthy(stored.polling_interval)
                               /\ stored.data # <<>>]
    ELSE self

\* Lines 416-428, for one item of the loop; sets is the DeviceDataPoints.
AgentPolledData_add_item(self, item, sets) ==
    IF IsInstanceDeviceDataPoints(item) = TRUE
    THEN IF sets[item.ref].valid = FALSE
         THEN self
         ELSE LET stored == [self EXCEPT !.data = Append(self.data, item.ref)]
              IN  [stored EXCEPT
                     !.valid = /\ Truthy(stored.agent_id)
                               /\ Truthy(stored.agent_program)
                               /\ Truthy(stored.agent_hostname)
                               /\ Truthy(stored.polling_interval)
                               /\ stored.data # <<>>]
    ELSE self

RECURSIVE AgentPolledData_add_loop(_, _, _)
AgentPolledData_add_loop(self, list, sets) ==
    IF list = <<>> THEN self
    ELSE AgentPolledData_add_loop(
            AgentPolledData_add_item(self, Head(list), sets), Tail(list), sets)

AgentPolledData_add(self, items, sets) ==
    AgentPolledData_add_loop(self, AsList(items), sets)

(***************************************************************************)
(* PollingTarget and DevicePollingTargets.  A PollingTarget does not       *)
(* change once built, so data holds the objects as they are.               *)
(***************************************************************************)
\* PollingTarget.__init__(address, multiplier)
PollingTarget(address, multiplier) ==
    [cls |-> "PollingTarget",
     address |-> address,
     multiplier |-> IF is_numeric(multiplier) = TRUE THEN multiplier
                    ELSE PyInt(1),
     valid |-> address # PyNone,
     checksum |-> hashstring(Str(address) \o Str(multiplier))]

IsInstancePollingTarget(item) == item.cls = "PollingTarget"

\* DevicePollingTargets.__init__(device)
DevicePollingTargets_init(device) ==
    [data |-> <<>>, device |-> device, valid |-> FALSE, checksums |-> <<>>]

\* Lines 578-588, for one item of the loop: nothing is appended to
\* _checksums.
DevicePollingTargets_add_item(self, item) ==
    IF IsInstancePollingTarget(item) = TRUE
    THEN IF item.valid = FALSE
         THEN self
         ELSE LET stored ==
                     IF item.checksum \notin Range(self.checksums)
                     THEN [self EXCEPT !.data = Append(self.data, item)]
                     ELSE self
              IN  [stored EXCEPT
                     !.valid = (stored.data # <<>>) /\ Truthy(stored.device)]
    ELSE self

RECURSIVE DevicePollingTargets_add_loop(_, _)
DevicePollingTargets_add_loop(self, list) ==
    IF list = <<>> THEN self
    ELSE DevicePollingTargets_add_loop(
            DevicePollingTargets_add_item(self, Head(list)), Tail(list))

DevicePollingTargets_add(self, items) ==
    DevicePollingTargets_add_loop(self, AsList(items))

NoTargets == DevicePollingTargets_init(PyStr(<<"h">>))

(***************************************************************************)
(* Inputs.                                                                 *)
(***************************************************************************)
KeyInputs ==
    { PyStr(<<"c">>), PyStr(<<" ", "C", " ">>), PyStr(<<>>), PyStr(<<" ">>),
      PyStr(Pattoo), PyInt(7), PyFloat(15, 1), PyNone, PyTrue, PyList }

ValueInputs ==
    { PyInt(42), PyInt(-3), PyFloat(425, 1), PyFloat(-15, 1),
      PyStr(<<"4", "2", ".", "0">>), PyStr(<<"4", "2">>),
      PyStr(<<" ", "-", "1", ".", "5", " ">>), PyStr(<<"+", "2", ".", "7">>),
      PyStr(<<"1", ".">>), PyStr(<<".", "5">>), PyStr(<<".">>),
      PyStr(<<"-">>), PyStr(<<"a", "b", "c">>), PyStr(<<"4", "a">>),
      PyStr(<<"1", ".", "2", ".", "3">>), PyStr(<<>>),
      PyNone, PyTrue, PyFalse, PyList }

DataTypeInputs ==
    { DATA_INT, DATA_FLOAT, DATA_COUNT64, DATA_COUNT, DATA_STRING, DATA_NONE,
      PyFloat(99, 0), PyInt(7), PyInt(1), PyTrue, PyFalse, PyNone,
      PyStr(<<"9", "9">>), PyList }

(***************************************************************************)
(* State.  dps is the heap of DataPoints and ddps the heap of              *)
(* DeviceDataPoints; args[i] holds the arguments dps[i] was built from.    *)
(* call is the method call in progress: a caller invokes a method with its *)
(* arguments (pc = "called"), the method body runs to its end (pc =        *)
(* "returned", before = the target as it was at the call, raised = the     *)
(* call ended in an exception) and the caller goes on (pc = "idle").       *)
(***************************************************************************)
\* files holds the agent-id files of the host and ids the agent ids that
\* get_agent_id has returned so far, for each (agent_name, agent_hostname).
AgentNames == {<<"a">>, <<"b">>}
AgentHostnames == {<<"g">>, <<"h">>}

\* daemon.agent_id_file: the name of the file of (agent_name,
\* agent_hostname), one file for each pair.
agent_id_file(agent_name, agent_hostname) == <<agent_name, agent_hostname>>

AgentIdFiles ==
    {agent_id_file(n, h) : n \in AgentNames, h \in AgentHostnames}

NoFile == [isfile |-> FALSE, content |-> <<>>]
NoFiles == [f \in AgentIdFiles |-> NoFile]
NoIds == [f \in AgentNames \X AgentHostnames |-> {}]

Idle == [pc |-> "idle"]

Invoke(op, target, items, self) ==
    /\ call.pc = "idle"
    /\ call' = [pc |-> "called", op |-> op, target |-> target,
                items |-> items, before |-> self, raised |-> FALSE]
    /\ UNCHANGED <<dps, args, ddps, apd, files, ids, dpt>>

Returned(op) == call.pc = "returned" /\ call.op = op

\* The caller goes on after the call.
Return ==
    /\ call.pc = "returned"
    /\ call' = Idle
    /\ UNCHANGED <<dps, args, ddps, apd, files, ids, dpt>>

\* dps[call.target].add(call.items)
Attach ==
    /\ call.pc = "called" /\ call.op = "DataPoint.add"
    /\ LET result == DataPoint_add(dps[call.target], call.items)
       IN  /\ dps' = [dps EXCEPT ![call.target] = result.self]
           /\ call' = [call EXCEPT !.pc = "returned", !.raised = result.raised]
    /\ UNCHANGED <<args, ddps, apd, files, ids, dpt>>

\* ddps[call.target].add(call.items)
DeviceAdd ==
    /\ call.pc = "called" /\ call.op = "DeviceDataPoints.add"
    /\ ddps' = [ddps EXCEPT ![call.target] =
                    DeviceDataPoints_add(ddps[call.target], call.items, dps)]
    /\ call' = [call EXCEPT !.pc = "returned"]
    /\ UNCHANGED <<dps, args, apd, files, ids, dpt>>

\* apd.add(call.items)
AgentAdd ==
    /\ call.pc = "called" /\ call.op = "AgentPolledData.add"
    /\ apd' = AgentPolledData_add(apd, call.items, ddps)
    /\ call' = [call EXCEPT !.pc = "returned"]
    /\ UNCHANGED <<dps, args, ddps, files, ids, dpt>>

Seqs(S, n) == UNION {[1..k -> S] : k \in 0..n}

NoAgent == NewAgentPolledData(PyNone, PyNone, PyNone, PyNone)

(***************************************************************************)
(* SpecNew: the constructor over the whole input sets, one DataPoint at a  *)
(* time (a constructed DataPoint is dropped again by Discard).             *)
(***************************************************************************)
\* dp = DataPoint(key, value, data_type), with the clock at `now`
NewDataPoint(key, value, data_type, now) ==
    /\ dps = <<>>
    /\ dps' = <<DataPoint_init(key, value, data_type, now)>>
    /\ args' = <<[key |-> key, value |-> value, data_type |-> data_type]>>
    /\ UNCHANGED <<ddps, apd, call, files, ids, dpt>>

Discard ==
    /\ dps # <<>>
    /\ dps' = <<>>
    /\ args' = <<>>
    /\ UNCHANGED <<ddps, apd, call, files, ids, dpt>>

InitNew ==
    /\ dps = <<>>
    /\ args = <<>>
    /\ ddps = <<>>
    /\ apd = NoAgent
    /\ call = Idle
    /\ files = NoFiles
    /\ ids = NoIds
    /\ dpt = NoTargets

NextNew ==
    \/ \E key \in KeyInputs, value \in ValueInputs,
          data_type \in DataTypeInputs, now \in 0..MaxClock :
            NewDataPoint(key, value, data_type, now)
    \/ Discard

SpecNew == InitNew /\ [][NextNew]_vars

(***************************************************************************)
(* SpecAttach: two DataPoints and every sequence of DataPoint.add calls    *)
(* on them.                                                                *)
(***************************************************************************)
AttachArgs ==
    { [key |-> PyStr(<<"c">>), value |-> PyInt(1), data_type |-> DATA_INT],
      [key |-> PyStr(<<"c">>), value |-> PyInt(2), data_type |-> DATA_INT] }

AttachObjects ==
    { DataPointMetadata(PyStr(<<"a">>), PyStr(<<"b", "c">>)),
      DataPointMetadata(PyStr(<<"a", "b">>), PyStr(<<"c">>)),
      DataPointMetadata(PyStr(<<" ", "A">>), PyInt(7)),
      DataPointMetadata(PyStr(<<"a", "g", "e", "n", "t", "_", "i", "d">>),
                        PyStr(<<"c">>)),
      DataPointMetadata(PyStr(Pattoo), PyStr(<<"c">>)),
      Metadata(PyStr(<<"a">>), PyStr(<<"c">>)),
      NoneObject,
      DataPointRef(1) }

AttachCalls == AttachObjects \cup {ListOf(l) : l \in Seqs(AttachObjects, MaxItems)}

InitAttach ==
    /\ \E a1 \in AttachArgs, a2 \in AttachArgs :
          /\ args = <<a1, a2>>
          /\ dps = <<DataPoint_init(a1.key, a1.value, a1.data_type, 0),
                     DataPoint_init(a2.key, a2.value, a2.data_type, 0)>>
    /\ ddps = <<>>
    /\ apd = NoAgent
    /\ call = Idle
    /\ files = NoFiles
    /\ ids = NoIds
    /\ dpt = NoTargets

NextAttach ==
    \/ /\ call.pc = "idle"
       /\ \E d \in DOMAIN dps, items \in AttachCalls :
             Invoke("DataPoint.add", d, items, dps[d])
    \/ Attach
    \/ Return

SpecAttach == InitAttach /\ [][NextAttach]_vars

(***************************************************************************)
(* Spec: three DataPoints, built and annotated (a valid one with one       *)
(* metadata pair; an invalid one with the same key, data_type and          *)
(* metadata, hence the checksum of the first; a valid one with the same    *)
(* key and data_type and no metadata), two DeviceDataPoints (one with a    *)
(* device name, the other with another name or without one) and the        *)
(* AgentPolledData, and every sequence of add calls on the containers.     *)
(***************************************************************************)
SpecArgs ==
    << [key |-> PyStr(<<"c">>), value |-> PyInt(1), data_type |-> DATA_INT],
       [key |-> PyStr(<<"c">>), value |-> PyStr(<<"x">>), data_type |-> DATA_INT],
       [key |-> PyStr(<<"c">>), value |-> PyInt(1), data_type |-> DATA_INT] >>

SpecMetadata ==
    << ListOf(<<DataPointMetadata(PyStr(<<"a">>), PyStr(<<"b">>))>>),
       DataPointMetadata(PyStr(<<"a">>), PyStr(<<"b">>)),
       ListOf(<<>>) >>

NoDevice == { PyStr(<<>>), PyNone }

AgentInputs ==
    LET id == PyStr(<<"i">>)
        program == PyStr(<<"p">>)
        host == PyStr(<<"h">>)
        interval == PyInt(30)
    IN  { NewAgentPolledData(id, program, host, interval),
          NewAgentPolledData(PyStr(<<>>), program, host, interval),
          NewAgentPolledData(id, PyStr(<<>>), host, interval),
          NewAgentPolledData(id, program, PyStr(<<>>), interval),
          NewAgentPolledData(id, program, host, PyInt(0)) }

\* What a caller hands to DeviceDataPoints.add: a DataPoint, None, a
\* DeviceDataPoints, a list of DataPoints and None, or a list of a DataPoint,
\* a string and None.
DeviceObjects == {DataPointRef(i) : i \in DOMAIN dps} \cup {NoneObject}

DeviceCalls ==
    DeviceObjects \cup {DeviceDataPointsRef(1)}
        \cup {ListOf(l) : l \in Seqs(DeviceObjects, MaxItems)}
        \cup {ListOf(<<DataPointRef(i), StrObject, NoneObject>>) : i \in DOMAIN dps}

\* What a caller hands to AgentPolledData.add: a DeviceDataPoints, None, a
\* DataPoint, a list of DeviceDataPoints and None, or a list of a
\* DeviceDataPoints, a string and None.
AgentObjects == {DeviceDataPointsRef(j) : j \in DOMAIN ddps} \cup {NoneObject}

AgentCalls ==
    AgentObjects \cup {DataPointRef(1)}
        \cup {ListOf(l) : l \in Seqs(AgentObjects, MaxItems)}
        \cup {ListOf(<<DeviceDataPointsRef(j), StrObject, NoneObject>>) :
                j \in DOMAIN ddps}

Init ==
    /\ args = SpecArgs
    /\ dps = [i \in DOMAIN SpecArgs |->
                DataPoint_add(DataPoint_init(SpecArgs[i].key, SpecArgs[i].value,
                                             SpecArgs[i].data_type, 0),
                              SpecMetadata[i]).self]
    /\ \E device \in NoDevice \cup {PyStr(<<"g">>)} :
          ddps = <<DeviceDataPoints_init(PyStr(<<"h">>)),
                   DeviceDataPoints_init(device)>>
    /\ apd \in AgentInputs
    /\ call = Idle
    /\ files = NoFiles
    /\ ids = NoIds
    /\ dpt = NoTargets

Next ==
    \/ /\ call.pc = "idle"
       /\ \E s \in DOMAIN ddps, items \in DeviceCalls :
             Invoke("DeviceDataPoints.add", s, items, ddps[s])
    \/ /\ call.pc = "idle"
       /\ \E items \in AgentCalls :
             /\ Len(AgentPolledData_add(apd, items, ddps).data) <= MaxData
             /\ Invoke("AgentPolledData.add", 0, items, apd)
    \/ DeviceAdd
    \/ AgentAdd
    \/ Return

Spec == Init /\ [][Next]_vars

(***************************************************************************)
(* Claims about the constructor.                                           *)
(***************************************************************************)
IsBoolean(v) == v.t = "bool"
IsOneOf(v, list) == PyIn(v, list) /\ ~IsBoolean(v)

\* C9: a newly constructed DataPoint is valid if and only if the normaliser
\* (metadata = False, override = False) accepts the key and the value, the
\* data_type is one of INT, FLOAT, COUNT, COUNT64, STRING, NONE and is not a
\* boolean, and, when the data_type is numeric, the raw value is numeric.
C9_ReadingValidity ==
    \A i \in DOMAIN dps :
        LET a == args[i]
            accepted == _key_value_valid(a.key, a.value, FALSE, FALSE).valid
        IN  /\ dps[i].valid <=>
                  /\ accepted
                  /\ IsOneOf(a.data_type, DataTypes)
                  /\ (IsOneOf(a.data_type, NumericTypes) => is_numeric(a.value))
            /\ (IsOneOf(a.data_type, NumericTypes) /\ ~is_numeric(a.value))
                  => ~dps[i].valid

\* C9 witness: a key and a string value the normaliser accepts, a numeric
\* data_type, a value that is no number: the DataPoint is invalid.
C9_Witness ==
    \E i \in DOMAIN dps :
        /\ args[i].key = PyStr(<<"c">>)
        /\ args[i].value = PyStr(<<"a", "b", "c">>)
        /\ args[i].data_type = DATA_FLOAT
        /\ dps[i].valid = FALSE

\* C10: for a valid DataPoint built from a numeric string, the stored value
\* is the float the string parses to under FLOAT, COUNT and COUNT64, and
\* that float truncated to an integer under INT ("42.0" under FLOAT stores
\* 42.0, " -1.5 " under INT stores -1); under STRING the stored value is the
\* string form of the value given.
C10_NumericCoercion ==
    \A i \in DOMAIN dps :
        LET a == args[i]
            numericString == a.value.t = "str" /\ is_numeric(a.value)
        IN  /\ (dps[i].valid /\ numericString
                 /\ IsOneOf(a.data_type, <<DATA_FLOAT, DATA_COUNT, DATA_COUNT64>>))
                  => /\ dps[i].value.t = "float"
                     /\ dps[i].value = ParseFloat(a.value.s)
            /\ (dps[i].valid /\ numericString /\ IsOneOf(a.data_type, <<DATA_INT>>))
                  => /\ dps[i].value.t = "int"
                     /\ dps[i].value.n = TruncFloat(ParseFloat(a.value.s))
                     /\ Abs(dps[i].value.n) * Pow10(ParseFloat(a.value.s).d)
                            <= Abs(ParseFloat(a.value.s).n)
            /\ IsOneOf(a.data_type, <<DATA_STRING>>)
                  => dps[i].value = PyStr(Str(a.value))
            /\ (dps[i].valid /\ a.value = PyStr(<<"4", "2", ".", "0">>)
                 /\ a.data_type = DATA_FLOAT)
                  => dps[i].value = PyFloat(42, 0)
            /\ (dps[i].valid /\ a.value = PyStr(<<" ", "-", "1", ".", "5", " ">>)
                 /\ a.data_type = DATA_INT)
                  => dps[i].value = PyInt(-1)

\* C10 witness: DataPoint("c", "42.0", DATA_FLOAT) is valid and stores 42.0.
C10_Witness ==
    \E i \in DOMAIN dps :
        /\ args[i].value = PyStr(<<"4", "2", ".", "0">>)
        /\ args[i].data_type = DATA_FLOAT
        /\ dps[i].valid
        /\ dps[i].value = PyFloat(42, 0)

(***************************************************************************)
(* Claims about DataPoint.add.                                             *)
(***************************************************************************)
\* The (key, value) pairs a DataPoint has accepted, in the order accepted.
AcceptedPairs(dp) ==
    [i \in DOMAIN dp.metakeys |-> <<dp.metakeys[i], dp.metadata[dp.metakeys[i]]>>]

NoDuplicates(seq) == \A i, j \in DOMAIN seq : seq[i] = seq[j] => i = j

\* C7: two DataPoints built with the same key, value and data_type whose
\* accepted metadata (key, value) pairs differ have different checksums.
C7_ChecksumSensitivity ==
    \A i, j \in DOMAIN dps :
        (args[i] = args[j] /\ AcceptedPairs(dps[i]) # AcceptedPairs(dps[j]))
            => dps[i].checksum # dps[j].checksum

\* What C8 says of one item: it is inserted if and only if it is a Metadata
\* instance, is valid, its key is not in DATAPOINT_KEYS and is not attached.
C8_Inserted(self, item) ==
    /\ item.cls \in {"Metadata", "DataPointMetadata"}
    /\ item.cls = "DataPointMetadata" /\ item.valid
    /\ \A i \in DOMAIN DATAPOINT_KEYS : item.key # DATAPOINT_KEYS[i]
    /\ item.key \notin DOMAIN self.metadata

RECURSIVE C8_Fold(_, _)
C8_Fold(self, list) ==
    IF list = <<>> THEN self
    ELSE C8_Fold(
            IF C8_Inserted(self, Head(list))
            THEN [self EXCEPT
                    !.metadata = [k \in DOMAIN self.metadata \cup {Head(list).key} |->
                                    IF k \in DOMAIN self.metadata
                                    THEN self.metadata[k] ELSE Head(list).value],
                    !.metakeys = Append(self.metakeys, Head(list).key),
                    !.checksum = hashstring(self.checksum \o Head(list).key.s
                                            \o Head(list).value.s)]
            ELSE self,
            Tail(list))

\* C8: DataPoint.add takes one item or a list and, for each item in order,
\* inserts it and refolds the checksum if and only if it is a valid Metadata
\* instance whose key is neither in DATAPOINT_KEYS nor attached; any other
\* item is skipped and no error is raised.  An attached key keeps its first
\* value, and the keys of the mapping are the recorded keys, each once.
C8_AttachContract ==
    \A d \in DOMAIN dps :
        /\ Returned("DataPoint.add") /\ call.target = d
              => /\ call.raised = FALSE
                 /\ dps[d] = C8_Fold(call.before,
                                     IF call.items.cls = "list"
                                     THEN call.items.elems ELSE <<call.items>>)
                 /\ \A k \in DOMAIN call.before.metadata :
                        dps[d].metadata[k] = call.before.metadata[k]
        /\ DOMAIN dps[d].metadata = Range(dps[d].metakeys)
        /\ NoDuplicates(dps[d].metakeys)

(***************************************************************************)
(* Claims about the containers.                                            *)
(***************************************************************************)
\* The list an add call loops over.
Offered == IF call.items.cls = "list" THEN call.items.elems ELSE <<call.items>>

OfferedDataPoints == SelectSeq(Offered, LAMBDA o : o.cls = "DataPoint")
OfferedSets == SelectSeq(Offered, LAMBDA o : o.cls = "DeviceDataPoints")

IsPrefix(short, long) ==
    Len(short) <= Len(long) /\ SubSeq(long, 1, Len(short)) = short

Count(seq, x) == Cardinality({i \in DOMAIN seq : seq[i] = x})

\* C1: the AgentPolledData is valid if and only if agent_id, agent_program,
\* agent_hostname and polling_interval are all truthy and it holds a valid
\* DeviceDataPoints that holds a valid DataPoint.
C1_BottomUpActivation ==
    apd.valid <=>
        /\ Truthy(apd.agent_id)
        /\ Truthy(apd.agent_program)
        /\ Truthy(apd.agent_hostname)
        /\ Truthy(apd.polling_interval)
        /\ \E i \in DOMAIN apd.data :
              /\ ddps[apd.data[i]].valid
              /\ \E k \in DOMAIN ddps[apd.data[i]].data :
                    dps[ddps[apd.data[i]].data[k]].valid

\* C2: every DataPoint stored in the data of a DeviceDataPoints is valid.
C2_OnlyValidStored ==
    \A s \in DOMAIN ddps :
        \A k \in DOMAIN ddps[s].data : dps[ddps[s].data[k]].valid

\* C3: after DeviceDataPoints.add, each checksum offered in the call is in
\* the checksum index once and is the checksum of one stored DataPoint; the
\* call stores one DataPoint for each offered checksum the index did not
\* hold, however often it was offered, so an add of DataPoints whose
\* checksums are all in the index changes neither data nor the index; no
\* error is raised.
C3_IdempotentDedup ==
    Returned("DeviceDataPoints.add") =>
        LET pre == call.before
            post == ddps[call.target]
            sums == {dps[OfferedDataPoints[i].ref].checksum :
                        i \in DOMAIN OfferedDataPoints}
        IN  /\ call.raised = FALSE
            /\ IsPrefix(pre.data, post.data)
            /\ IsPrefix(pre.checksums, post.checksums)
            /\ Len(post.data) = Len(post.checksums)
            /\ \A c \in sums :
                  /\ Count(post.checksums, c) = 1
                  /\ Cardinality({k \in DOMAIN post.data :
                                    dps[post.data[k]].checksum = c}) = 1
            /\ Len(post.data) - Len(pre.data)
                  = Cardinality(sums \ Range(pre.checksums))
            /\ sums \subseteq Range(pre.checksums)
                  => post.data = pre.data /\ post.checksums = pre.checksums

\* C3 witness: a DataPoint is added to a set that stores it already, and
\* the set still stores it once.
C3_Witness ==
    /\ Returned("DeviceDataPoints.add")
    /\ call.items = DataPointRef(1)
    /\ call.before.data = <<1>>
    /\ ddps[call.target].data = <<1>>
    /\ ddps[call.target].checksums = <<dps[1].checksum>>

\* C4: AgentPolledData.add appends exactly the offered DeviceDataPoints
\* that are valid at the call, in order; with none of them offered, data and
\* valid stay as they were; every stored DeviceDataPoints is valid.
C4_OnlyValidChildren ==
    /\ \A i \in DOMAIN apd.data : ddps[apd.data[i]].valid
    /\ Returned("AgentPolledData.add") =>
          LET accepted == SelectSeq(OfferedSets, LAMBDA o : ddps[o.ref].valid)
          IN  /\ apd.data = call.before.data
                                \o [i \in DOMAIN accepted |-> accepted[i].ref]
              /\ accepted = <<>> => apd = call.before

\* C4 witness: an invalid and a valid DeviceDataPoints are offered in one
\* call, and the valid one only is stored.
C4_Witness ==
    /\ Returned("AgentPolledData.add")
    /\ call.items = ListOf(<<DeviceDataPointsRef(2), DeviceDataPointsRef(1)>>)
    /\ ~ddps[2].valid
    /\ ddps[1].valid
    /\ apd.data = Append(call.before.data, 1)

\* C5: a container that is valid stays valid in every step.
C5_MonotonicActivity ==
    [][/\ \A s \in DOMAIN ddps : ddps[s].valid => ddps'[s].valid
       /\ apd.valid => apd'.valid]_vars

\* C5 witness: a valid DeviceDataPoints is offered a duplicate of what it
\* stores together with None, stores nothing new, and is still valid.
C5_Witness ==
    /\ Returned("DeviceDataPoints.add")
    /\ call.before.valid
    /\ call.items = ListOf(<<DataPointRef(2), NoneObject>>)
    /\ call.before.data = <<1>>
    /\ ddps[call.target].data = <<1>>
    /\ ddps[call.target].valid

\* C6: an add call does what the same call without the items of another
\* type does, and raises no error; with no item of the expected type data
\* and valid stay as they were; add([dp, "str", None]) on an empty set
\* leaves one stored DataPoint.
C6_HeterogeneousAdd ==
    /\ Returned("DeviceDataPoints.add") =>
          /\ call.raised = FALSE
          /\ ddps[call.target]
                = DeviceDataPoints_add(call.before, ListOf(OfferedDataPoints), dps)
          /\ OfferedDataPoints = <<>> => ddps[call.target] = call.before
          /\ (Len(Offered) = 3 /\ Len(OfferedDataPoints) = 1
               /\ call.before.data = <<>>)
                => ddps[call.target].data = <<OfferedDataPoints[1].ref>>
    /\ Returned("AgentPolledData.add") =>
          /\ call.raised = FALSE
          /\ apd = AgentPolledData_add(call.before, ListOf(OfferedSets), ddps)
          /\ OfferedSets = <<>> => apd = call.before

\* C6 witness: add([dp, "str", None]) on an empty set has stored dp alone.
C6_Witness ==
    /\ Returned("DeviceDataPoints.add")
    /\ call.items = ListOf(<<DataPointRef(1), StrObject, NoneObject>>)
    /\ call.before.data = <<>>
    /\ ddps[call.target].data = <<1>>

(***************************************************************************)
(* SpecNorm: calls of _key_value_valid(key, value, metadata, override).   *)
(* call holds the arguments and, once the function has returned, its       *)
(* result.                                                                 *)
(***************************************************************************)
NormKeys ==
    KeyInputs \cup
    { PyStr(<<"p", "a", "t", "t", "o", "o", "_", "f", "o", "o">>),
      PyStr(<<" ", "P", "a", "t", "t", "o", "o">>),
      PyStr(<<"a", "_", "P", "A", "T", "T", "o", "o", "_", "c">>),
      PyStr(<<"p", "a", "t", "t", "o">>),
      PyStr(<<"\t", "B", "\n">>),
      PyStr(<<"\t">>),
      PyFalse }

NormValues ==
    { PyInt(1), PyFloat(425, 1), PyStr(<<" ", "a", "B", " ">>), PyStr(<<"a">>),
      PyStr(<<>>), PyStr(<<" ">>), PyNone, PyTrue, PyFalse, PyList }

\* _key_value_valid(key, value, metadata=metadata, override=override) is called
Normalise(key, value, metadata, override) ==
    /\ call.pc = "idle"
    /\ call' = [pc |-> "called", op |-> "_key_value_valid", key |-> key,
                value |-> value, metadata |-> metadata, override |-> override]
    /\ UNCHANGED <<dps, args, ddps, apd, files, ids, dpt>>

\* The body of _key_value_valid, up to its return.
Normalised ==
    /\ call.pc = "called" /\ call.op = "_key_value_valid"
    /\ call' = [pc |-> "returned", op |-> call.op, key |-> call.key,
                value |-> call.value, metadata |-> call.metadata,
                override |-> call.override, raised |-> FALSE,
                result |-> _key_value_valid(call.key, call.value,
                                            call.metadata, call.override)]
    /\ UNCHANGED <<dps, args, ddps, apd, files, ids, dpt>>

NextNorm ==
    \/ /\ call.pc = "idle"
       /\ \E key \in NormKeys, value \in NormValues,
             metadata \in BOOLEAN, override \in BOOLEAN :
                Normalise(key, value, metadata, override)
    \/ Normalised
    \/ Return

SpecNorm == InitNew /\ [][NextNorm]_vars

(***************************************************************************)
(* Claims about _key_value_valid.                                          *)
(***************************************************************************)
\* A str, int or float that is no bool.
IsPlain(v) == v.t \in {"str", "int", "float"}

\* The key of the call as a string, lowercased and trimmed.
TrimmedKey == Strip(Lower(Str(call.key)))

\* C11: a call of _key_value_valid whose key, lowercased and trimmed,
\* contains 'pattoo' anywhere returns valid = False when override is False,
\* and valid = True when override is True and key and value are acceptable;
\* so it is for ('pattoo_foo', 1).
C11_ReservedKey ==
    (Returned("_key_value_valid") /\ IsPlain(call.key)
        /\ Contains(TrimmedKey, Pattoo)) =>
            /\ call.override = FALSE => call.result.valid = FALSE
            /\ (call.override = TRUE /\ IsPlain(call.value))
                  => call.result.valid = TRUE

\* C11 witness: ('a_PATToo_c', 1) has been rejected with override False.
C11_Witness ==
    /\ Returned("_key_value_valid")
    /\ call.key = PyStr(<<"a", "_", "P", "A", "T", "T", "o", "o", "_", "c">>)
    /\ call.value = PyInt(1)
    /\ call.override = FALSE
    /\ call.result.valid = FALSE

\* C12: _key_value_valid raises nothing; when key or value is a bool, None
\* or no str, int or float, or the key is empty once trimmed, the result is
\* (None, None, False); every result with valid = False has key = None and
\* value = None, whatever metadata and override are.
C12_FailureContract ==
    Returned("_key_value_valid") =>
        /\ call.raised = FALSE
        /\ (~IsPlain(call.key) \/ ~IsPlain(call.value) \/ TrimmedKey = <<>>)
              => call.result = [key |-> PyNone, value |-> PyNone, valid |-> FALSE]
        /\ call.result.valid \in BOOLEAN
        /\ call.result.valid = FALSE
              => call.result.key = PyNone /\ call.result.value = PyNone

\* C12 witness: a pair with acceptable types and a key of blanks has been
\* rejected as (None, None, False) with metadata and override set.
C12_Witness ==
    /\ Returned("_key_value_valid")
    /\ call.key = PyStr(<<" ">>)
    /\ call.value = PyInt(1)
    /\ call.metadata = TRUE
    /\ call.override = TRUE
    /\ call.result = [key |-> PyNone, value |-> PyNone, valid |-> FALSE]

\* C13: when _key_value_valid returns valid = True, the key returned is
\* str(key) lowercased and trimmed and is not empty; the value returned is
\* str(value) trimmed when metadata is True and the value given when it is
\* False; and the pair returned is returned again by the same call on it.
C13_SuccessContract ==
    (Returned("_key_value_valid") /\ call.result.valid = TRUE) =>
        /\ call.result.key = PyStr(TrimmedKey)
        /\ TrimmedKey # <<>>
        /\ call.metadata = TRUE
              => call.result.value = PyStr(Strip(Str(call.value)))
        /\ call.metadata = FALSE => call.result.value = call.value
        /\ _key_value_valid(call.result.key, call.result.value,
                            call.metadata, call.override) = call.result

\* C13 witness: (' C ', ' aB ') has been accepted as metadata, as
\* ('c', 'aB').
C13_Witness ==
    /\ Returned("_key_value_valid")
    /\ call.key = PyStr(<<" ", "C", " ">>)
    /\ call.value = PyStr(<<" ", "a", "B", " ">>)
    /\ call.metadata = TRUE
    /\ call.result = [key |-> PyStr(<<"c">>), value |-> PyStr(<<"a", "B">>),
                      valid |-> TRUE]

(***************************************************************************)
(* AgentKey and _strip_pattoo.                                             *)
(***************************************************************************)
\* str.replace(old, new): the occurrences of old are found from the left,
\* each search starting after the occurrence before it.
RECURSIVE Replace(_, _, _)
Replace(s, old, new) ==
    IF Len(s) < Len(old) THEN s
    ELSE IF SubSeq(s, 1, Len(old)) = old
         THEN new \o Replace(SubSeq(s, Len(old) + 1, Len(s)), old, new)
         ELSE <<Head(s)>> \o Replace(Tail(s), old, new)

\* re.sub(r'^(_)+(.*?)$', '\\2', s) on a string of one line: the leading
\* underscores are dropped.
RECURSIVE StripLeadingUnderscores(_)
StripLeadingUnderscores(s) ==
    IF s # <<>> /\ Head(s) = "_" THEN StripLeadingUnderscores(Tail(s)) ELSE s

_strip_pattoo(key) ==
    LET result == Replace(Replace(Strip(Lower(Str(key))), Pattoo, <<>>),
                          <<"-">>, <<"_">>)
    IN  StripLeadingUnderscores(result)

\* AgentKey.__init__(prefix)
AgentKey_init(prefix) == [prefix |-> _strip_pattoo(prefix)]

\* AgentKey.key(_key)
AgentKey_key(self, _key) == self.prefix \o <<"_">> \o _strip_pattoo(_key)

(***************************************************************************)
(* SpecKey: an AgentKey is built from a prefix and asked for a key.        *)
(***************************************************************************)
MaxKeyLen == 3

KeyAlphabet == {"-", "_", "A", " "}

RawKeys ==
    {PyStr(k) : k \in Seqs(KeyAlphabet, MaxKeyLen)} \cup
    { PyStr(Pattoo),
      PyStr(<<"P", "a", "t", "t", "o", "o", "-", "F", "o", "o">>),
      PyStr(<<"c", "-", "p", "a", "t", "t", "o", "o", "_", "c">>),
      PyStr(<<"p", "a", "t", "p", "a", "t", "t", "o", "o", "t", "o", "o">>),
      PyStr(<<"p", "a", "t", "t", "o", "o", " ", "c">>),
      PyStr(<<"c", " ", "p", "a", "t", "t", "o", "o">>),
      PyStr(<<"\t", "P", "A", "T", "T", "O", "O", "-", "B", "\n">>),
      PyInt(7) }

Prefixes ==
    { PyStr(<<"c">>),
      PyStr(<<"P", "a", "t", "t", "o", "o", "_", "A", "-", "c">>) }

\* AgentKey(prefix).key(_key) is called
FormatKey(prefix, _key) ==
    /\ call.pc = "idle"
    /\ call' = [pc |-> "called", op |-> "AgentKey.key",
                self |-> AgentKey_init(prefix), key |-> _key]
    /\ UNCHANGED <<dps, args, ddps, apd, files, ids, dpt>>

\* The body of AgentKey.key, up to its return.
KeyFormatted ==
    /\ call.pc = "called" /\ call.op = "AgentKey.key"
    /\ call' = [pc |-> "returned", op |-> call.op, self |-> call.self,
                key |-> call.key,
                result |-> AgentKey_key(call.self, call.key)]
    /\ UNCHANGED <<dps, args, ddps, apd, files, ids, dpt>>

NextKey ==
    \/ /\ call.pc = "idle"
       /\ \E prefix \in Prefixes, _key \in RawKeys : FormatKey(prefix, _key)
    \/ KeyFormatted
    \/ Return

SpecKey == InitNew /\ [][NextKey]_vars

\* What AgentKey.key returned after the prefix and the underscore.
Suffix == SubSeq(call.result, Len(call.self.prefix) + 2, Len(call.result))

\* C14: AgentKey.key returns the prefix, an underscore and the suffix, and
\* the suffix holds no 'pattoo', no dash and no uppercase letter; the suffix
\* of the key 'pattoo' is empty.
C14_FormattedKey ==
    Returned("AgentKey.key") =>
        /\ call.result = call.self.prefix \o <<"_">> \o Suffix
        /\ ~Contains(Suffix, Pattoo)
        /\ "-" \notin Range(Suffix)
        /\ Lower(Suffix) = Suffix
        /\ call.key = PyStr(Pattoo) => Suffix = <<>>

\* C24: the suffix AgentKey.key returns does not begin with an underscore
\* and has no whitespace at its start or at its end.
C24_TrimmedSuffix ==
    Returned("AgentKey.key") /\ Suffix # <<>> =>
        /\ Head(Suffix) # "_"
        /\ Head(Suffix) \notin Whitespace
        /\ Suffix[Len(Suffix)] \notin Whitespace

(***************************************************************************)
(* agent.get_agent_id(agent_name, agent_hostname), statement by statement. *)
(* A process that stops inside the call leaves the files as they are.      *)
(***************************************************************************)
\* What random() and time.time() give to _generate_agent_id.
Prehashes == {<<"1">>, <<"2">>}

\* _generate_agent_id, for one outcome of random() and time.time()
_generate_agent_id(prehash) == PyStr(hashstring(prehash))

\* f_handle.readline() at the start of a file: the text up to and with the
\* first newline.
ReadLine(content) ==
    LET ends == {i \in DOMAIN content : content[i] = "\n"}
    IN  IF ends = {} THEN content
        ELSE SubSeq(content, 1, CHOOSE i \in ends : \A j \in ends : i <= j)

\* Mutant: the id is written as a line, with its newline.
Written_AsLine(agent_id) == Str(agent_id) \o <<"\n">>

\* env.write(str(agent_id)): the text written.
Written(agent_id) == Str(agent_id)

\* get_agent_id(agent_name, agent_hostname) is called: line 415.
GetAgentId(agent_name, agent_hostname) ==
    /\ call.pc = "idle"
    /\ call' = [pc |-> "called", op |-> "get_agent_id", at |-> "isfile",
                agent_name |-> agent_name, agent_hostname |-> agent_hostname,
                filename |-> agent_id_file(agent_name, agent_hostname),
                before |-> files, generated |-> FALSE, agent_id |-> PyNone]
    /\ UNCHANGED <<dps, args, ddps, apd, files, ids, dpt>>

\* The function returns agent_id: line 428.
ReturnId(agent_id) ==
    /\ call' = [call EXCEPT !.pc = "returned", !.at = "done",
                            !.agent_id = agent_id]
    /\ ids' = [ids EXCEPT ![<<call.agent_name, call.agent_hostname>>] =
                    @ \cup {agent_id}]

\* if os.path.isfile(filename): line 418.
IsFile ==
    /\ call.pc = "called" /\ call.op = "get_agent_id" /\ call.at = "isfile"
    /\ call' = [call EXCEPT !.at = IF files[call.filename].isfile
                                   THEN "read" ELSE "generate"]
    /\ UNCHANGED <<dps, args, ddps, apd, files, ids, dpt>>

\* Lines 419-420: the file is opened, its first line read, and closed.
ReadId ==
    /\ call.pc = "called" /\ call.op = "get_agent_id" /\ call.at = "read"
    /\ call' = [call EXCEPT !.at = "return",
                            !.agent_id =
                               PyStr(ReadLine(files[call.filename].content))]
    /\ UNCHANGED <<dps, args, ddps, apd, files, ids, dpt>>

\* Line 423.
GenerateId ==
    /\ call.pc = "called" /\ call.op = "get_agent_id" /\ call.at = "generate"
    /\ \E prehash \in Prehashes :
          call' = [call EXCEPT !.at = "open", !.generated = TRUE,
                               !.agent_id = _generate_agent_id(prehash)]
    /\ UNCHANGED <<dps, args, ddps, apd, files, ids, dpt>>

\* open(filename, 'w+'): line 424.  The file is there and empty.
OpenFile ==
    /\ call.pc = "called" /\ call.op = "get_agent_id" /\ call.at = "open"
    /\ files' = [files EXCEPT ![call.filename] =
                    [isfile |-> TRUE, content |-> <<>>]]
    /\ call' = [call EXCEPT !.at = "write"]
    /\ UNCHANGED <<dps, args, ddps, apd, ids, dpt>>

\* Line 425 and the end of the with block: the text is in the file.
WriteId ==
    /\ call.pc = "called" /\ call.op = "get_agent_id" /\ call.at = "write"
    /\ files' = [files EXCEPT ![call.filename].content =
                    @ \o Written(call.agent_id)]
    /\ call' = [call EXCEPT !.at = "return"]
    /\ UNCHANGED <<dps, args, ddps, apd, ids, dpt>>

\* Line 428, at the end of either branch.
ReturnAgentId ==
    /\ call.pc = "called" /\ call.op = "get_agent_id" /\ call.at = "return"
    /\ ReturnId(call.agent_id)
    /\ UNCHANGED <<dps, args, ddps, apd, files, dpt>>

\* The process stops inside the call and is started again.
Restart ==
    /\ call.pc = "called" /\ call.op = "get_agent_id"
    /\ call' = Idle
    /\ UNCHANGED <<dps, args, ddps, apd, files, ids, dpt>>

NextId ==
    \/ /\ call.pc = "idle"
       /\ \E agent_name \in AgentNames, agent_hostname \in AgentHostnames :
             GetAgentId(agent_name, agent_hostname)
    \/ IsFile
    \/ ReadId
    \/ GenerateId
    \/ OpenFile
    \/ WriteId
    \/ ReturnAgentId
    \/ Restart
    \/ Return

SpecId == InitNew /\ [][NextId]_vars

\* C15: all the calls of get_agent_id for one (agent_name, agent_hostname)
\* have returned the same id; a call that finds the file returns what the
\* file holds, generates no id and leaves the file as it is; a call that
\* finds no file returns the id it generated and the file holds that id;
\* no call touches the file of another pair, and two pairs have two files.
C15_StableIdentity ==
    /\ \A pair \in DOMAIN ids : Cardinality(ids[pair]) <= 1
    /\ \A p \in DOMAIN ids, q \in DOMAIN ids :
          p # q => agent_id_file(p[1], p[2]) # agent_id_file(q[1], q[2])
    /\ Returned("get_agent_id") =>
          /\ \A f \in AgentIdFiles \ {call.filename} : files[f] = call.before[f]
          /\ IF call.before[call.filename].isfile
             THEN /\ call.agent_id
                        = PyStr(ReadLine(call.before[call.filename].content))
                  /\ call.generated = FALSE
                  /\ files[call.filename] = call.before[call.filename]
             ELSE /\ call.generated = TRUE
                  /\ files[call.filename]
                        = [isfile |-> TRUE, content |-> call.agent_id.s]

\* C15 witness: a call has returned the id an earlier call wrote to the
\* file, while the file of another pair holds another id.
C15_Witness ==
    /\ Returned("get_agent_id")
    /\ call.before[call.filename].isfile
    /\ call.before[call.filename].content # <<>>
    /\ call.generated = FALSE
    /\ ids[<<call.agent_name, call.agent_hostname>>] = {call.agent_id}
    /\ \E f \in AgentIdFiles :
          files[f].isfile /\ files[f].content # <<>>
             /\ files[f].content # files[call.filename].content

(***************************************************************************)
(* installation.packages.install(requirements_dir, installation_directory) *)
(* pip is the installed version of each package (<<>> when it is not       *)
(* installed).  The shell commands are taken to succeed.  shared.log and   *)
(* log.log2die_safe are not in the sources: each either ends the process   *)
(* (SystemExit) or returns.  raised is the exception the call ended with,  *)
(* "None" when there is none.                                              *)
(***************************************************************************)
MaxLines == 2

PipPackages == {<<"a">>, <<"b">>}
PipVersions == {<<>>, <<"1">>, <<"2">>}
LatestVersion == <<"2">>

\* The lines pip_requirements.txt is made of.
RequirementLines ==
    { <<"#", " ", "c">>, <<>>, <<" ", "a", " ">>, <<"b", "=", "=", "1">>,
      <<"a", ">", "=", "1">> }

\* s.split(sep, 1)[0]
RECURSIVE BeforeFirst(_, _)
BeforeFirst(s, sep) ==
    IF Len(s) < Len(sep) THEN s
    ELSE IF SubSeq(s, 1, Len(sep)) = sep THEN <<>>
         ELSE <<Head(s)>> \o BeforeFirst(Tail(s), sep)

\* s.split(sep, 1)[1], for an s that holds sep
AfterFirst(s, sep) ==
    SubSeq(s, Len(BeforeFirst(s, sep)) + Len(sep) + 1, Len(s))

\* Lines 74-83: the stripped lines that are neither comments nor empty.
RECURSIVE ReadRequirements(_)
ReadRequirements(text) ==
    IF text = <<>> THEN <<>>
    ELSE LET _line == Strip(Head(text))
         IN  IF (_line # <<>> /\ Head(_line) = "#") \/ _line = <<>>
             THEN ReadRequirements(Tail(text))
             ELSE <<_line>> \o ReadRequirements(Tail(text))

\* install_missing_pip3(package): pip installs the version the requirement
\* names, or the latest one.
install_missing_pip3(package, pip) ==
    IF Contains(package, <<"=", "=">>)
    THEN [pip EXCEPT ![BeforeFirst(package, <<"=", "=">>)] =
                        AfterFirst(package, <<"=", "=">>)]
    ELSE [pip EXCEPT ![BeforeFirst(BeforeFirst(package, <<"=">>), <<">">>)] =
                        LatestVersion]

\* get_package_version(package_name): `pip3 show` prints nothing for a
\* package that is not installed, and pkg_description[1] raises IndexError.
get_package_version(package_name, pip) ==
    IF pip[package_name] = <<>>
    THEN [raised |-> "IndexError", version |-> <<>>]
    ELSE [raised |-> "None", version |-> pip[package_name]]

\* Lines 85-99: the packages pip does not show are installed.
RECURSIVE InstallMissing(_, _)
InstallMissing(lines, pip) ==
    IF lines = <<>> THEN pip
    ELSE LET package == BeforeFirst(BeforeFirst(Head(lines), <<"=">>), <<">">>)
             returncode == IF pip[package] = <<>> THEN 1 ELSE 0
         IN  InstallMissing(Tail(lines),
                            IF returncode # 0
                            THEN install_missing_pip3(package, pip)
                            ELSE pip)

\* Lines 104-111: a package pinned to another version is installed again;
\* an exception of get_package_version ends the loop.
RECURSIVE ReinstallOutdated(_, _)
ReinstallOutdated(lines, pip) ==
    IF lines = <<>> THEN [pip |-> pip, raised |-> "None"]
    ELSE LET package == Head(lines)
             pinned == Contains(package, <<"=", "=">>)
             name == BeforeFirst(package, <<"=", "=">>)
             installed_version == get_package_version(name, pip)
         IN  IF ~pinned THEN ReinstallOutdated(Tail(lines), pip)
             ELSE IF installed_version.raised # "None"
             THEN [pip |-> pip, raised |-> installed_version.raised]
             ELSE ReinstallOutdated(Tail(lines),
                    IF installed_version.version
                          # AfterFirst(package, <<"=", "=">>)
                    THEN install_missing_pip3(package, pip)
                    ELSE pip)

\* install(requirements_dir, installation_directory) is called, with the
\* requirements file (or none; readable or not), the installed packages,
\* the user and the installation directory (or none, owned by root) as
\* they are.
Install(isfile, readable, text, pip, user, isdir) ==
    /\ call.pc = "idle"
    /\ call' = [pc |-> "called", op |-> "packages.install", at |-> "read",
                isfile |-> isfile, readable |-> readable,
                text |-> text, lines |-> <<>>,
                pip |-> pip, user |-> user, isdir |-> isdir, owner |-> "root",
                raised |-> "None", result |-> PyNone]
    /\ UNCHANGED <<dps, args, ddps, apd, files, ids, dpt>>

\* Lines 57-83.  No file: shared.log (63) ends the process, or returns and
\* open() raises FileNotFoundError, which the function does not catch.  A
\* file that cannot be opened: PermissionError is caught (68) and
\* log.log2die_safe ends the process, or returns and the function goes on
\* with no lines.  Else the lines are read.
InstallRead ==
    /\ call.pc = "called" /\ call.op = "packages.install" /\ call.at = "read"
    /\ \E exits \in BOOLEAN :
          call' =
             IF call.isfile = FALSE
             THEN [call EXCEPT !.pc = "returned",
                               !.raised = IF exits THEN "SystemExit"
                                          ELSE "FileNotFoundError"]
             ELSE IF call.readable = FALSE
             THEN IF exits
                  THEN [call EXCEPT !.pc = "returned",
                                    !.raised = "SystemExit"]
                  ELSE [call EXCEPT !.at = "show"]
             ELSE [call EXCEPT !.at = "show",
                               !.lines = ReadRequirements(call.text)]
    /\ UNCHANGED <<dps, args, ddps, apd, files, ids, dpt>>

\* Lines 85-99.
InstallShow ==
    /\ call.pc = "called" /\ call.op = "packages.install" /\ call.at = "show"
    /\ call' = [call EXCEPT !.at = "outdated",
                            !.pip = InstallMissing(call.lines, call.pip)]
    /\ UNCHANGED <<dps, args, ddps, apd, files, ids, dpt>>

\* Lines 101-111.
InstallOutdated ==
    /\ call.pc = "called" /\ call.op = "packages.install"
    /\ call.at = "outdated"
    /\ LET outdated == ReinstallOutdated(call.lines, call.pip)
       IN  call' = IF outdated.raised # "None"
                   THEN [call EXCEPT !.pc = "returned",
                                     !.pip = outdated.pip,
                                     !.raised = outdated.raised]
                   ELSE [call EXCEPT !.at = "chown", !.pip = outdated.pip]
    /\ UNCHANGED <<dps, args, ddps, apd, files, ids, dpt>>

\* Lines 113-119 and the end of the function: no return statement, so the
\* call gives None.
InstallEnd ==
    /\ call.pc = "called" /\ call.op = "packages.install" /\ call.at = "chown"
    /\ call' = [call EXCEPT !.pc = "returned", !.at = "end",
                            !.owner = IF call.user = "root" /\ call.isdir
                                      THEN "pattoo" ELSE call.owner,
                            !.result = PyNone]
    /\ UNCHANGED <<dps, args, ddps, apd, files, ids, dpt>>

NextInstall ==
    \/ /\ call.pc = "idle"
       /\ \E isfile \in BOOLEAN, readable \in BOOLEAN,
             text \in Seqs(RequirementLines, MaxLines),
             pip \in [PipPackages -> PipVersions], user \in {"root", "pattoo"},
             isdir \in BOOLEAN :
                Install(isfile, readable, text, pip, user, isdir)
    \/ InstallRead
    \/ InstallShow
    \/ InstallOutdated
    \/ InstallEnd
    \/ Return

SpecInstall == InitNew /\ [][NextInstall]_vars

\* C16: a call of packages.install that has reached the end of the function
\* has returned True.
C16_InstallReturnsTrue ==
    (Returned("packages.install") /\ call.at = "end") => call.result = PyTrue

(***************************************************************************)
(* SpecAlias: two DataPoints with one key and data_type, one               *)
(* DeviceDataPoints, and every sequence of DataPoint.add and               *)
(* DeviceDataPoints.add calls: a stored DataPoint is the object the caller *)
(* still holds, so metadata can be attached to it after it was stored.     *)
(***************************************************************************)
AliasMetadata ==
    { DataPointMetadata(PyStr(<<"a">>), PyStr(<<"b">>)),
      DataPointMetadata(PyStr(<<"b">>), PyStr(<<"c">>)),
      DataPointMetadata(PyStr(<<"a", "g", "e", "n", "t", "_", "i", "d">>),
                        PyStr(<<"c">>)),
      DataPointMetadata(PyStr(Pattoo), PyStr(<<"c">>)),
      NoneObject,
      DataPointRef(2),
      ListOf(<<DataPointMetadata(PyStr(<<"a">>), PyStr(<<"b">>)),
               DataPointMetadata(PyStr(<<"a">>), PyStr(<<"c">>))>>),
      ListOf(<<>>) }

InitAlias ==
    /\ args = <<SpecArgs[1], SpecArgs[3]>>
    /\ dps = [i \in DOMAIN args |->
                DataPoint_init(args[i].key, args[i].value, args[i].data_type, 0)]
    /\ ddps = <<DeviceDataPoints_init(PyStr(<<"h">>))>>
    /\ apd = NoAgent
    /\ call = Idle
    /\ files = NoFiles
    /\ ids = NoIds
    /\ dpt = NoTargets

NextAlias ==
    \/ /\ call.pc = "idle"
       /\ \E d \in DOMAIN dps, item \in AliasMetadata :
             Invoke("DataPoint.add", d, item, dps[d])
    \/ /\ call.pc = "idle"
       /\ \E s \in DOMAIN ddps, d \in DOMAIN dps :
             Invoke("DeviceDataPoints.add", s, DataPointRef(d), ddps[s])
    \/ Attach
    \/ DeviceAdd
    \/ Return

SpecAlias == InitAlias /\ [][NextAlias]_vars

\* C17: no two places of the data of a DeviceDataPoints hold DataPoints with
\* the same checksum, and none holds a DataPoint that another place holds.
C17_DedupInvariant ==
    \A s \in DOMAIN ddps :
        \A i \in DOMAIN ddps[s].data, j \in DOMAIN ddps[s].data :
            i # j => /\ ddps[s].data[i] # ddps[s].data[j]
                     /\ dps[ddps[s].data[i]].checksum
                           # dps[ddps[s].data[j]].checksum

\* C18: a DeviceDataPoints is valid if and only if its data is not empty
\* and its device is truthy: it is not valid with data = [] when built, it
\* is never valid without a device, and an add call makes it valid exactly
\* when it is the first to store a DataPoint and the device is truthy.
C18_SetActivity ==
    /\ \A device \in NoDevice \cup {PyStr(<<"h">>)} :
          /\ DeviceDataPoints_init(device).valid = FALSE
          /\ DeviceDataPoints_init(device).data = <<>>
    /\ \A s \in DOMAIN ddps :
          ddps[s].valid <=> (ddps[s].data # <<>> /\ Truthy(ddps[s].device))
    /\ Returned("DeviceDataPoints.add") =>
          ((~call.before.valid /\ ddps[call.target].valid)
             <=> /\ call.before.data = <<>>
                 /\ ddps[call.target].data # <<>>
                 /\ Truthy(ddps[call.target].device))

\* C18 witness: the first add that stored a DataPoint in the set with a
\* device has made it valid, while the set without a device holds a
\* DataPoint and is not valid.
C18_Witness ==
    /\ Returned("DeviceDataPoints.add")
    /\ call.target = 1
    /\ call.before.data = <<>>
    /\ ~call.before.valid
    /\ ddps[1].valid
    /\ ddps[2].data # <<>>
    /\ ~Truthy(ddps[2].device)
    /\ ~ddps[2].valid

\* The checksum folded over (key, value) pairs, from the left.
RECURSIVE C19_Refold(_, _)
C19_Refold(checksum, pairs) ==
    IF pairs = <<>> THEN checksum
    ELSE C19_Refold(hashstring(checksum \o Str(Head(pairs)[1])
                                        \o Str(Head(pairs)[2])),
                    Tail(pairs))

\* C19: the checksum of a DataPoint is hash(key + data_type) folded over
\* its accepted metadata pairs in the order they were accepted; two
\* DataPoints with one key, data_type and sequence of accepted pairs have
\* one checksum, whatever their values and the calls that attached the
\* pairs; and two accepted pairs attached in the two orders give two
\* checksums.
C19_ChecksumFold ==
    /\ \A d \in DOMAIN dps :
          dps[d].checksum
             = C19_Refold(hashstring(Str(dps[d].key) \o Str(dps[d].data_type)),
                          AcceptedPairs(dps[d]))
    /\ \A d \in DOMAIN dps, e \in DOMAIN dps :
          (/\ dps[d].key = dps[e].key
           /\ dps[d].data_type = dps[e].data_type
           /\ AcceptedPairs(dps[d]) = AcceptedPairs(dps[e]))
             => dps[d].checksum = dps[e].checksum
    /\ \A d \in DOMAIN dps, e \in DOMAIN dps :
          (/\ dps[d].key = dps[e].key
           /\ dps[d].data_type = dps[e].data_type
           /\ Len(dps[d].metakeys) = 2
           /\ AcceptedPairs(dps[e]) = <<AcceptedPairs(dps[d])[2],
                                        AcceptedPairs(dps[d])[1]>>)
             => dps[d].checksum # dps[e].checksum

\* What C20 calls a skipped item.
C20_Skipped(self, item) ==
    \/ item.cls \notin {"Metadata", "DataPointMetadata"}
    \/ /\ item.cls = "DataPointMetadata"
       /\ \/ item.valid = FALSE
          \/ \E i \in DOMAIN DATAPOINT_KEYS : item.key = DATAPOINT_KEYS[i]
          \/ item.key \in DOMAIN self.metadata

\* C20: the step of DataPoint.add leaves key, value, data_type, timestamp
\* and valid of its DataPoint, every other DataPoint, every DeviceDataPoints
\* and the AgentPolledData as they are; when every item of the call is
\* skipped it leaves metadata and checksum as they are too.
C20_AttachFrame ==
    [][(call.pc = "called" /\ call.op = "DataPoint.add") =>
          LET self == dps[call.target]
              after == dps'[call.target]
          IN  /\ after.key = self.key
              /\ after.value = self.value
              /\ after.data_type = self.data_type
              /\ after.timestamp = self.timestamp
              /\ after.valid = self.valid
              /\ \A d \in DOMAIN dps \ {call.target} : dps'[d] = dps[d]
              /\ DOMAIN dps' = DOMAIN dps
              /\ ddps' = ddps
              /\ apd' = apd
              /\ (\A i \in DOMAIN Offered : C20_Skipped(self, Offered[i]))
                    => /\ after.metadata = self.metadata
                       /\ after.checksum = self.checksum]_vars

\* C20 witness: a call whose two items were skipped, their key being
\* attached already, has returned from a stored DataPoint that is as it
\* was.
C20_Witness ==
    /\ Returned("DataPoint.add")
    /\ call.items = ListOf(<<DataPointMetadata(PyStr(<<"a">>), PyStr(<<"b">>)),
                             DataPointMetadata(PyStr(<<"a">>), PyStr(<<"c">>))>>)
    /\ PyStr(<<"a">>) \in DOMAIN call.before.metadata
    /\ dps[call.target] = call.before
    /\ \E i \in DOMAIN ddps[1].data : ddps[1].data[i] = call.target

\* The DataPoints of refs, in order, that are the first with their checksum
\* among refs and the checksums of seen.
RECURSIVE C21_FirstSeen(_, _)
C21_FirstSeen(refs, seen) ==
    IF refs = <<>> THEN <<>>
    ELSE IF dps[Head(refs)].checksum \in seen
         THEN C21_FirstSeen(Tail(refs), seen)
         ELSE <<Head(refs)>>
                 \o C21_FirstSeen(Tail(refs), seen \cup {dps[Head(refs)].checksum})

\* C21: an add call leaves the data it found as a prefix and appends the
\* accepted children in the order they were offered: for DeviceDataPoints
\* the DataPoints that are the first offered with their checksum, for
\* AgentPolledData the valid DeviceDataPoints; a DataPoint offered after
\* one with its key, data_type and metadata and another value is stored is
\* dropped and the stored one stays.
C21_FirstSeenWins ==
    /\ Returned("DeviceDataPoints.add") =>
          LET refs == [i \in DOMAIN OfferedDataPoints |-> OfferedDataPoints[i].ref]
          IN  /\ ddps[call.target].data
                    = call.before.data
                         \o C21_FirstSeen(refs, Range(call.before.checksums))
              /\ \A k \in DOMAIN ddps[call.target].data :
                    ddps[call.target].checksums[k]
                       = dps[ddps[call.target].data[k]].checksum
              /\ \A k \in DOMAIN call.before.data :
                    \A i \in DOMAIN refs :
                       (/\ dps[refs[i]].checksum
                              = dps[call.before.data[k]].checksum
                        /\ dps[refs[i]].value # dps[call.before.data[k]].value)
                          => /\ ddps[call.target].data[k] = call.before.data[k]
                             /\ refs[i] \notin Range(ddps[call.target].data)
    /\ Returned("AgentPolledData.add") =>
          LET accepted == SelectSeq(OfferedSets, LAMBDA o : ddps[o.ref].valid)
          IN  /\ IsPrefix(call.before.data, apd.data)
              /\ SubSeq(apd.data, Len(call.before.data) + 1, Len(apd.data))
                    = [i \in DOMAIN accepted |-> accepted[i].ref]

\* C21 witness: a set that stores DataPoint 1 was offered DataPoint 3 and
\* then DataPoint 2 (the checksum of 1, another value) in one list, and
\* stores 1 and 3 in this order; the AgentPolledData, offered the second
\* set and then the first in one list, both valid, stores them in this
\* order.
C21_Witness ==
    /\ Returned("DeviceDataPoints.add")
    /\ call.items = ListOf(<<DataPointRef(3), DataPointRef(2)>>)
    /\ call.before.data = <<1>>
    /\ dps[2].checksum = dps[1].checksum
    /\ dps[2].value # dps[1].value
    /\ ddps[call.target].data = <<1, 3>>
    /\ ddps[1].valid /\ ddps[2].valid
    /\ apd.data = <<2, 1>>

(***************************************************************************)
(* SpecThreads: two threads call add on one DeviceDataPoints, each with    *)
(* one DataPoint, and run the statements of lines 337-343 one at a time.   *)
(* call.th holds the place of each thread in the method and                *)
(* call.overlapped whether a call began while another was in the method.   *)
(***************************************************************************)
MaxStored == 3

Threads == {"t1", "t2"}

ThreadIdle == [at |-> "idle", item |-> 0]

\* Mutant: the checksum is taken as new without a look at the index.
Unseen_Always(self, item, heap) == TRUE

\* Line 338: item.checksum not in self._checksums
Unseen(self, item, heap) == heap[item].checksum \notin Range(self.checksums)

InitThreads ==
    /\ args = SpecArgs
    /\ dps = [i \in DOMAIN SpecArgs |->
                DataPoint_add(DataPoint_init(SpecArgs[i].key, SpecArgs[i].value,
                                             SpecArgs[i].data_type, 0),
                              SpecMetadata[i]).self]
    /\ ddps = <<DeviceDataPoints_init(PyStr(<<"h">>))>>
    /\ apd = NoAgent
    /\ call = [pc |-> "threads", op |-> "DeviceDataPoints.add",
               th |-> [t \in Threads |-> ThreadIdle], overlapped |-> FALSE]
    /\ files = NoFiles
    /\ ids = NoIds
    /\ dpt = NoTargets

ThreadAt(t, at) == call.pc = "threads" /\ call.th[t].at = at

\* Thread t calls ddps[1].add(dps[d]): lines 331-337.
ThreadAdd(t, d) ==
    /\ ThreadAt(t, "idle")
    /\ Len(ddps[1].data) < MaxStored
    /\ call' = [call EXCEPT
                  !.th[t] = [at |-> "check", item |-> d],
                  !.overlapped = @ \/ \E u \in Threads \ {t} :
                                         call.th[u].at # "idle"]
    /\ UNCHANGED <<dps, args, ddps, apd, files, ids, dpt>>

\* Line 338.
ThreadCheck(t) ==
    /\ ThreadAt(t, "check")
    /\ call' = [call EXCEPT
                  !.th[t].at = IF Unseen(ddps[1], call.th[t].item, dps)
                               THEN "data" ELSE "valid"]
    /\ UNCHANGED <<dps, args, ddps, apd, files, ids, dpt>>

\* Line 339.
ThreadAppendData(t) ==
    /\ ThreadAt(t, "data")
    /\ ddps' = [ddps EXCEPT ![1].data = Append(@, call.th[t].item)]
    /\ call' = [call EXCEPT !.th[t].at = "checksums"]
    /\ UNCHANGED <<dps, args, apd, files, ids, dpt>>

\* Line 340.
ThreadAppendChecksum(t) ==
    /\ ThreadAt(t, "checksums")
    /\ ddps' = [ddps EXCEPT
                  ![1].checksums = Append(@, dps[call.th[t].item].checksum)]
    /\ call' = [call EXCEPT !.th[t].at = "valid"]
    /\ UNCHANGED <<dps, args, apd, files, ids, dpt>>

\* Line 343, and the return.
ThreadSetValid(t) ==
    /\ ThreadAt(t, "valid")
    /\ ddps' = [ddps EXCEPT
                  ![1].valid = (ddps[1].data # <<>>) /\ Truthy(ddps[1].device)]
    /\ call' = [call EXCEPT !.th[t] = ThreadIdle]
    /\ UNCHANGED <<dps, args, apd, files, ids, dpt>>

NextThreads ==
    \E t \in Threads :
        \/ \E d \in DOMAIN dps : ThreadAdd(t, d)
        \/ ThreadCheck(t)
        \/ ThreadAppendData(t)
        \/ ThreadAppendChecksum(t)
        \/ ThreadSetValid(t)

SpecThreads == InitThreads /\ [][NextThreads]_vars

\* The checksums of the stored DataPoints, in the order of data.
StoredChecksums(self) == [k \in DOMAIN self.data |-> dps[self.data[k]].checksum]

\* C22: as long as no add call began while another thread was in add, no
\* two stored DataPoints share a checksum and the index holds the checksums
\* of data in order (all of them when no call is running); once calls
\* overlap this can fail.
C22_OrderedDedup ==
    call.overlapped = FALSE =>
        /\ NoDuplicates(StoredChecksums(ddps[1]))
        /\ IsPrefix(ddps[1].checksums, StoredChecksums(ddps[1]))
        /\ (\A t \in Threads : call.th[t].at = "idle")
              => ddps[1].checksums = StoredChecksums(ddps[1])

\* C22 witness: calls have overlapped and returned, two stored DataPoints
\* share a checksum, and the index, as long as data, is in another order.
C22_Witness ==
    /\ call.overlapped
    /\ \A t \in Threads : call.th[t].at = "idle"
    /\ ~NoDuplicates(StoredChecksums(ddps[1]))
    /\ Len(ddps[1].checksums) = Len(ddps[1].data)
    /\ ddps[1].checksums # StoredChecksums(ddps[1])

(***************************************************************************)
(* SpecTargets: one DevicePollingTargets and every sequence of add calls   *)
(* on it.                                                                  *)
(***************************************************************************)
MaxTargets == 3

TargetObjects ==
    {PollingTarget(address, multiplier) :
        address \in {PyStr(<<"x">>), PyStr(<<"y">>), PyNone},
        multiplier \in {PyInt(1), PyInt(2)}}
      \cup {NoneObject}

TargetCalls == TargetObjects \cup {ListOf(l) : l \in Seqs(TargetObjects, MaxItems)}

\* dpt.add(call.items)
TargetsAdd ==
    /\ call.pc = "called" /\ call.op = "DevicePollingTargets.add"
    /\ dpt' = DevicePollingTargets_add(dpt, call.items)
    /\ call' = [call EXCEPT !.pc = "returned"]
    /\ UNCHANGED <<dps, args, ddps, apd, files, ids>>

NextTargets ==
    \/ /\ call.pc = "idle"
       /\ \E items \in TargetCalls :
             /\ Len(DevicePollingTargets_add(dpt, items).data) <= MaxTargets
             /\ Invoke("DevicePollingTargets.add", 0, items, dpt)
    \/ TargetsAdd
    \/ Return

SpecTargets == InitNew /\ [][NextTargets]_vars

\* C23: no two stored PollingTargets have the same checksum, and every
\* stored PollingTarget is valid.
C23_TargetDedup ==
    /\ \A i \in DOMAIN dpt.data, j \in DOMAIN dpt.data :
          i # j => dpt.data[i].checksum # dpt.data[j].checksum
    /\ \A i \in DOMAIN dpt.data : dpt.data[i].valid

(***************************************************************************)
(* SpecRace: two processes call get_agent_id for one (agent_name,          *)
(* agent_hostname) while its file does not exist, and run the statements   *)
(* of the function in any order.  call.procs holds where each process is.  *)
(***************************************************************************)
Procs == {"p1", "p2"}

\* env.write(text) through a handle opened at offset 0, and the close that
\* flushes it: text goes over the start of what the file holds.
WrittenAt(content, text) ==
    text \o SubSeq(content, Len(text) + 1, Len(content))

\* Both processes enter get_agent_id: line 415 in each.
StartRace(agent_name, agent_hostname) ==
    /\ call.pc = "idle"
    /\ files[agent_id_file(agent_name, agent_hostname)].isfile = FALSE
    /\ call' = [pc |-> "processes",
                agent_name |-> agent_name, agent_hostname |-> agent_hostname,
                filename |-> agent_id_file(agent_name, agent_hostname),
                procs |-> [p \in Procs |->
                            [at |-> "isfile", generated |-> FALSE,
                             agent_id |-> PyNone]]]
    /\ UNCHANGED <<dps, args, ddps, apd, files, ids, dpt>>

ProcAt(p, at) == call.pc = "processes" /\ call.procs[p].at = at

\* The function returns agent_id in process p: line 428.
ProcReturnId(p, agent_id) ==
    /\ call' = [call EXCEPT !.procs[p].at = "done",
                            !.procs[p].agent_id = agent_id]
    /\ ids' = [ids EXCEPT ![<<call.agent_name, call.agent_hostname>>] =
                    @ \cup {agent_id}]

\* if os.path.isfile(filename): line 418.
ProcIsFile(p) ==
    /\ ProcAt(p, "isfile")
    /\ call' = [call EXCEPT !.procs[p].at = IF files[call.filename].isfile
                                            THEN "read" ELSE "generate"]
    /\ UNCHANGED <<dps, args, ddps, apd, files, ids, dpt>>

\* Lines 419-420.
ProcReadId(p) ==
    /\ ProcAt(p, "read")
    /\ call' = [call EXCEPT !.procs[p].at = "return",
                            !.procs[p].agent_id =
                               PyStr(ReadLine(files[call.filename].content))]
    /\ UNCHANGED <<dps, args, ddps, apd, files, ids, dpt>>

\* Line 423.
ProcGenerateId(p) ==
    /\ ProcAt(p, "generate")
    /\ \E prehash \in Prehashes :
          call' = [call EXCEPT !.procs[p].at = "open",
                               !.procs[p].generated = TRUE,
                               !.procs[p].agent_id =
                                    _generate_agent_id(prehash)]
    /\ UNCHANGED <<dps, args, ddps, apd, files, ids, dpt>>

\* open(filename, 'w+'): line 424.  The file is there and empty.
ProcOpenFile(p) ==
    /\ ProcAt(p, "open")
    /\ files' = [files EXCEPT ![call.filename] =
                    [isfile |-> TRUE, content |-> <<>>]]
    /\ call' = [call EXCEPT !.procs[p].at = "write"]
    /\ UNCHANGED <<dps, args, ddps, apd, ids, dpt>>

\* Line 425 and the end of the with block.
ProcWriteId(p) ==
    /\ ProcAt(p, "write")
    /\ files' = [files EXCEPT ![call.filename].content =
                    WrittenAt(@, Written(call.procs[p].agent_id))]
    /\ call' = [call EXCEPT !.procs[p].at = "return"]
    /\ UNCHANGED <<dps, args, ddps, apd, ids, dpt>>

\* Line 428, at the end of either branch.
ProcReturnAgentId(p) ==
    /\ ProcAt(p, "return")
    /\ ProcReturnId(p, call.procs[p].agent_id)
    /\ UNCHANGED <<dps, args, ddps, apd, files, dpt>>

\* Both calls have returned.
RaceOver == call.pc = "processes" /\ \A p \in Procs : call.procs[p].at = "done"

\* The two processes go on after their calls.
RaceReturn ==
    /\ RaceOver
    /\ call' = Idle
    /\ UNCHANGED <<dps, args, ddps, apd, files, ids, dpt>>

NextRace ==
    \/ /\ call.pc = "idle"
       /\ \E agent_name \in AgentNames, agent_hostname \in AgentHostnames :
             StartRace(agent_name, agent_hostname)
    \/ \E p \in Procs : ProcIsFile(p)
    \/ \E p \in Procs : ProcReadId(p)
    \/ \E p \in Procs : ProcGenerateId(p)
    \/ \E p \in Procs : ProcOpenFile(p)
    \/ \E p \in Procs : ProcWriteId(p)
    \/ \E p \in Procs : ProcReturnAgentId(p)
    \/ RaceReturn

SpecRace == InitNew /\ [][NextRace]_vars

\* C25: when two concurrent calls of get_agent_id that began with no file
\* have both returned, they have returned the same id and the file holds
\* that id.
C25_ConcurrentSameId ==
    RaceOver =>
        /\ \A p \in Procs, q \in Procs :
              call.procs[p].agent_id = call.procs[q].agent_id
        /\ \A p \in Procs :
              files[call.filename]
                 = [isfile |-> TRUE, content |-> Str(call.procs[p].agent_id)]

====
